---- MODULE Spec2Model ----
(***************************************************************************)
(* Star-coordinates view (niloxx/davil): the mapping animator, the mapper  *)
(* controller that drives it, the point size controller, and the event     *)
(* handlers of the view that call them.                                    *)
(*                                                                         *)
(* Numbers that are Python floats in the source are exact rationals here,  *)
(* a pair <<n, d>> with d > 0 in lowest terms; rounding is not modelled.    *)
(* An optional value (Python None) is the empty tuple, a present value v   *)
(* is <<v>>.                                                               *)
(***************************************************************************)
EXTENDS Integers, Sequences, FiniteSets

VARIABLES
    point_names,            \* identifiers of the points of the loaded dataset
    last_mapped_points_df,  \* MapperController._last_mapped_points_df
    animator,               \* MapperController._animator is set
    source_points,          \* MapperController._source_points is set
    source,                 \* render buffer: the x and y columns
    pc,                     \* position inside execute_mapping
    mapped_points_df,       \* execute_mapping's local mapped_points_df
    call,                   \* record of the last execute_mapping call
    initial_size,           \* PointSizeController._initial_size
    final_size,             \* PointSizeController._final_size
    m_size,                 \* PointSizeController._m
    c_size,                 \* PointSizeController._c
    sizes,                  \* render buffer: the size column
    point_error,            \* ErrorController's last normalized point error
    last_op,                \* last size operation, its argument and, for
                            \* set_single_size, the bounds and line it found
    vectors,                \* VectorController: the vector of every axis
    axis_sources,           \* StarCoordinatesView._axis_sources: (x1, y1)
    ignored_labels,         \* InputDataController: labels flagged inactive
    axis_visible,           \* AxisFigureElement: visibility of every axis
    handler                 \* record of the view's last event handler

vars == <<point_names, last_mapped_points_df, animator, source_points, source,
          pc, mapped_points_df, call,
          initial_size, final_size, m_size, c_size, sizes, point_error, last_op,
          vectors, axis_sources, ignored_labels, axis_visible, handler>>

mapper_vars == <<last_mapped_points_df, animator, source_points, source,
                 pc, mapped_points_df, call>>

size_vars == <<initial_size, final_size, m_size, c_size, sizes, point_error, last_op>>

view_vars == <<vectors, axis_sources, ignored_labels, axis_visible, handler>>

----------------------------------------------------------------------------
(* Bounds *)

\* largest coordinate a mapped point takes
MaxCoord == 1
\* time costs of the probe frame are the fractions n/d, n in 0..MaxCostNum
MaxCostNum == 3
\* ... and d in 1..MaxCostDen
MaxCostDen == 3
\* size arguments are the halves k/2, k in -MaxSizeArg..MaxSizeArg
MaxSizeArg == 3
\* normalized errors are the fractions k/ErrDen, k in 0..ErrDen
ErrDen == 2

----------------------------------------------------------------------------
(* Exact arithmetic *)

None == <<>>

Some(v) == <<v>>

Abs(n) == IF n < 0 THEN -n ELSE n

RECURSIVE GCD(_, _)
GCD(a, b) == IF b = 0 THEN a ELSE GCD(b, a % b)

\* the fraction n/d (d # 0) in lowest terms with a positive denominator
Rat(n, d) ==
    LET g == GCD(Abs(n), Abs(d))
        s == IF d < 0 THEN -1 ELSE 1
    IN  <<(s * n) \div g, (s * d) \div g>>

RInt(n) == <<n, 1>>

\* sums and products are formed over reduced terms, so that intermediate
\* values stay small
RAdd(a, b) ==
    LET g == GCD(a[2], b[2])
    IN  Rat(a[1] * (b[2] \div g) + b[1] * (a[2] \div g), (a[2] \div g) * b[2])

RNeg(a) == <<-a[1], a[2]>>

RSub(a, b) == RAdd(a, RNeg(b))

RMul(a, b) ==
    LET g1 == GCD(Abs(a[1]), b[2])
        g2 == GCD(Abs(b[1]), a[2])
    IN  Rat((a[1] \div g1) * (b[1] \div g2), (a[2] \div g2) * (b[2] \div g1))

\* b is not zero
RDiv(a, b) == RMul(a, Rat(b[2], b[1]))

RLess(a, b) == a[1] * b[2] < b[1] * a[2]

RLeq(a, b) == a[1] * b[2] <= b[1] * a[2]

\* Python's int(): truncation toward zero
int(r) == IF r[1] >= 0 THEN r[1] \div r[2] ELSE -((-r[1]) \div r[2])

\* Python's // on numbers: the floor of a / b, b > 0
FloorDiv(a, b) == (a[1] * b[2]) \div (a[2] * b[1])

----------------------------------------------------------------------------
(* Line equation y = m x + c through two points *)

\* backend/util/line_equation.py is not among the sources. Modelled from the
\* specification: slope and intercept solved from the two (x, y) pairs; a
\* zero x-delta is a defined case and yields the zero-slope line through y0
\* (x stays constant, no division happens).
calculate_line_equation(x0x1, y0y1) ==
    LET x0 == x0x1[1]
        x1 == x0x1[2]
        y0 == y0y1[1]
        y1 == y0y1[2]
    IN  IF x0 = x1
        THEN [fault |-> FALSE, m |-> RInt(0), c |-> y0]
        ELSE LET m == RDiv(RSub(y1, y0), RSub(x1, x0))
             IN  [fault |-> FALSE, m |-> m, c |-> RSub(y0, RMul(m, x0))]

----------------------------------------------------------------------------
(* Mapping animator *)

\* default of get_animation_sequence's max_time
max_time == 2

\* a slip in the step: the fraction of the NEXT step is applied
step_x_exponential_next_step(step_x, final_x, step, total_steps) ==
    [p \in DOMAIN step_x |->
        RAdd(step_x[p],
             RDiv(RMul(RInt(step + 1), RSub(final_x[p], step_x[p])),
                  RInt(total_steps)))]

\* a slip in the formula: the increment is subtracted
step_x_exponential_backwards(step_x, final_x, step, total_steps) ==
    [p \in DOMAIN step_x |->
        RSub(step_x[p],
             RDiv(RMul(RInt(step), RSub(final_x[p], step_x[p])),
                  RInt(total_steps)))]

\* step_points_df['x'][i] = x0 + step * (xf - x0) / total_steps, where x0 is
\* the CURRENT x of the step dataframe (updated in place)
step_x_exponential(step_x, final_x, step, total_steps) ==
    [p \in DOMAIN step_x |->
        RAdd(step_x[p],
             RDiv(RMul(RInt(step), RSub(final_x[p], step_x[p])),
                  RInt(total_steps)))]

\* the unused alternative: interpolation from the original x
step_x_constant(original_x, final_x, step, total_steps) ==
    [p \in DOMAIN original_x |->
        RAdd(original_x[p],
             RDiv(RMul(RInt(step), RSub(final_x[p], original_x[p])),
                  RInt(total_steps)))]

\* a slip in the formula: the intercept is left out
evaluate_y_no_intercept(x, m, c) ==
    [p \in DOMAIN x |-> RMul(m[p], x[p])]

\* points_df.eval('y = m * x + c')
evaluate_y(x, m, c) ==
    [p \in DOMAIN x |-> RAdd(RMul(m[p], x[p]), c[p])]

\* the dataframe with the columns x (of the original), m and c;
\* a fault of the line equation of any point propagates
get_equation_dataframe(original_points, mapped) ==
    LET eq == [p \in DOMAIN original_points.x |->
                  calculate_line_equation(
                      <<original_points.x[p], mapped.x[p]>>,
                      <<original_points.y[p], mapped.y[p]>>)]
    IN  [fault |-> \E p \in DOMAIN eq : eq[p].fault,
         x |-> original_points.x,
         m |-> [p \in DOMAIN eq |-> eq[p].m],
         c |-> [p \in DOMAIN eq |-> eq[p].c]]

\* the frame calculate_time_cost writes: step 0 of 1
probe_frame(df, mapped) ==
    LET x == step_x_exponential(df.x, mapped.x, 0, 1)
    IN  [x |-> x, y |-> evaluate_y(x, df.m, df.c)]

\* a slip in the step count: one frame more than the budget holds
total_steps_of_one_more(time_cost) == FloorDiv(RInt(max_time), time_cost) + 1

\* total_steps = int(max_time // time_cost), time_cost > 0
total_steps_of(time_cost) == FloorDiv(RInt(max_time), time_cost)

\* the frames written by the loop "for step in range(0, total_steps)",
\* from step on, x being the x column of the step dataframe
RECURSIVE step_frames(_, _, _, _, _, _)
step_frames(x, mapped, m, c, step, total_steps) ==
    IF step >= total_steps
    THEN <<>>
    ELSE LET nx == step_x_exponential(x, mapped.x, step, total_steps)
         IN  <<[x |-> nx, y |-> evaluate_y(nx, m, c)]>>
             \o step_frames(nx, mapped, m, c, step + 1, total_steps)

\* a slip at the end: the final write is left out
final_frame_missing(mapped) == <<>>

\* the final write: update_coordinates(mapped_points['x'], mapped_points['y'])
final_frame(mapped) == <<[x |-> mapped.x, y |-> mapped.y]>>

\* get_animation_sequence(original_points, mapped_points): the layouts it
\* writes through update_coordinates, in order, and how it ends.
\* original_points is optional; time_cost is what the probe measured.
get_animation_sequence(original_points, mapped, time_cost) ==
    IF original_points = None
    THEN \* None.copy()
         [fault |-> "AttributeError", writes |-> <<>>, total_steps |-> 0]
    ELSE
    LET df == get_equation_dataframe(original_points[1], mapped)
        probe == probe_frame(df, mapped)
    IN  IF df.fault
        THEN [fault |-> "ZeroDivisionError in calculate_line_equation",
              writes |-> <<>>, total_steps |-> 0]
        ELSE IF time_cost[1] = 0
        THEN \* 1/time_cost in the debug message
             [fault |-> "ZeroDivisionError in calculate_time_cost",
              writes |-> <<probe>>, total_steps |-> 0]
        ELSE LET total_steps == total_steps_of(time_cost)
             IN  [fault |-> "none",
                  writes |-> <<probe>>
                             \o step_frames(probe.x, mapped, df.m, df.c,
                                            0, total_steps)
                             \o final_frame(mapped),
                  total_steps |-> total_steps]

----------------------------------------------------------------------------
(* Inputs *)

Coords == {RInt(v) : v \in 0..MaxCoord}

\* the tables a mapping algorithm can return: one position per point
Layouts(P) == [x : [P -> Coords], y : [P -> Coords]]

\* what time.time() can measure for the probe frame
TimeCosts == {Rat(n, d) : n \in 0..MaxCostNum, d \in 1..MaxCostDen}

Last(s) == s[Len(s)]

----------------------------------------------------------------------------
(* Mapper controller *)

\* execute_mapping, first part: the active mapping algorithm returns the
\* mapped points (an opaque strategy: any table over the dataset's points)
execute_active_algorithm ==
    /\ pc = "idle"
    /\ \E mapped \in Layouts(point_names) :
          mapped_points_df' = Some(mapped)
    /\ pc' = "mapped"
    /\ call' = None
    /\ UNCHANGED <<point_names, last_mapped_points_df, animator, source_points,
                   source>>
    /\ UNCHANGED size_vars
    /\ UNCHANGED view_vars

\* execute_mapping when the active mapping algorithm raises: the exception
\* leaves execute_mapping before anything is animated or stored
execute_active_algorithm_raises ==
    /\ pc = "idle"
    /\ call' = Some([original |-> last_mapped_points_df,
                     target |-> None,
                     animator |-> animator,
                     source_points |-> source_points,
                     time_cost |-> RInt(0),
                     fault |-> "error in the mapping algorithm",
                     writes |-> <<>>,
                     total_steps |-> 0,
                     before |-> source])
    /\ UNCHANGED <<point_names, last_mapped_points_df, animator, source_points,
                   source, pc, mapped_points_df>>
    /\ UNCHANGED size_vars
    /\ UNCHANGED view_vars

\* the layout the render buffer holds after the writes of an animation
buffer_after(buffer, writes) ==
    IF writes = <<>> THEN buffer ELSE Some(Last(writes))

\* a slip in the assignment: the columns are crossed
update_source_points_crossed(mapped) == Some([x |-> mapped.y, y |-> mapped.x])

\* _update_source_points: data['x'], data['y'] = the mapped columns
update_source_points(mapped) == Some([x |-> mapped.x, y |-> mapped.y])

\* execute_mapping, from "if self._animator:" to its return, as the values it
\* leaves; an exception of the animator propagates and skips the rest
execute_mapping_result(mapped, time_cost) ==
    LET anim == IF animator
                THEN get_animation_sequence(last_mapped_points_df, mapped,
                                            time_cost)
                ELSE [fault |-> "none", writes |-> <<>>, total_steps |-> 0]
        returned == anim.fault = "none"
        animated == buffer_after(source, anim.writes)
    IN  [fault |-> anim.fault,
         last |-> IF returned THEN Some(mapped) ELSE last_mapped_points_df,
         source |-> IF returned /\ source_points
                    THEN update_source_points(mapped)
                    ELSE animated,
         call |-> Some([original |-> last_mapped_points_df,
                        target |-> mapped,
                        animator |-> animator,
                        source_points |-> source_points,
                        time_cost |-> time_cost,
                        fault |-> anim.fault,
                        writes |-> anim.writes,
                        total_steps |-> anim.total_steps,
                        before |-> source])]

\* execute_mapping, second part: the animation, the stored result and the
\* source points
execute_mapping(time_cost) ==
    /\ pc = "mapped"
    /\ \E r \in {execute_mapping_result(mapped_points_df[1], time_cost)} :
           /\ last_mapped_points_df' = r.last
           /\ source' = r.source
           /\ call' = r.call
    /\ pc' = "idle"
    /\ mapped_points_df' = None
    /\ UNCHANGED <<point_names, animator, source_points>>
    /\ UNCHANGED size_vars
    /\ UNCHANGED view_vars

\* the probe frame is timed only when the animator gets as far as the probe
execute_mapping_step ==
    \E time_cost \in IF animator /\ last_mapped_points_df # None
                     THEN TimeCosts ELSE {RInt(0)} :
        execute_mapping(time_cost)

set_animator(a) ==
    /\ pc = "idle"
    /\ animator' = a
    /\ UNCHANGED <<point_names, last_mapped_points_df, source_points, source,
                   pc, mapped_points_df, call>>
    /\ UNCHANGED size_vars
    /\ UNCHANGED view_vars

set_source_points(s) ==
    /\ pc = "idle"
    /\ source_points' = s
    /\ UNCHANGED <<point_names, last_mapped_points_df, animator, source,
                   pc, mapped_points_df, call>>
    /\ UNCHANGED size_vars
    /\ UNCHANGED view_vars

----------------------------------------------------------------------------
(* Point size controller *)

DEFAULT_INITIAL_SIZE == 4

DEFAULT_FINAL_SIZE == 12

MIN_SIZE == 1

\* a slip in the control points: the two sizes are swapped
size_line_equation_swapped(initial, final) ==
    calculate_line_equation(<<RInt(0), RInt(1)>>, <<final, initial>>)

\* _calculate_line_equation: the line through (0, initial) and (1, final)
size_line_equation(initial, final) ==
    calculate_line_equation(<<RInt(0), RInt(1)>>, <<initial, final>>)

\* a slip in the clamp: the size is returned as it is
get_valid_size_unclamped(size) == RInt(int(size))

\* _get_valid_size: int(size), or MIN_SIZE when that is smaller
get_valid_size(size) ==
    LET s == int(size)
    IN  RInt(IF s >= MIN_SIZE THEN s ELSE MIN_SIZE)

\* a slip in the formula: the error term is subtracted
scaled_sizes_subtracted(m, c, error) ==
    [p \in DOMAIN error |-> RSub(c, RMul(m, error[p]))]

\* self._m * point_error_s + self._c, element by element
scaled_sizes(m, c, error) ==
    [p \in DOMAIN error |-> RAdd(RMul(m, error[p]), c)]

\* the body of update_sizes, for the bounds given
pushed_sizes(initial, final, error) ==
    LET eq == size_line_equation(initial, final)
    IN  [m |-> eq.m, c |-> eq.c, sizes |-> Some(scaled_sizes(eq.m, eq.c, error))]

\* the stored bounds and line, as set_single_size finds them
before_op == <<initial_size, final_size, m_size, c_size>>

update_sizes ==
    /\ pc = "idle"
    /\ LET r == pushed_sizes(initial_size, final_size, point_error)
       IN  /\ m_size' = r.m
           /\ c_size' = r.c
           /\ sizes' = r.sizes
    /\ last_op' = [op |-> "update_sizes", arg |-> RInt(0), before |-> None]
    /\ UNCHANGED <<initial_size, final_size, point_error, point_names>>
    /\ UNCHANGED mapper_vars
    /\ UNCHANGED view_vars

set_initial_size(new_size) ==
    /\ pc = "idle"
    /\ initial_size' = get_valid_size(new_size)
    /\ LET r == pushed_sizes(initial_size', final_size, point_error)
       IN  /\ m_size' = r.m
           /\ c_size' = r.c
           /\ sizes' = r.sizes
    /\ last_op' = [op |-> "set_initial_size", arg |-> new_size,
                   before |-> None]
    /\ UNCHANGED <<final_size, point_error, point_names>>
    /\ UNCHANGED mapper_vars
    /\ UNCHANGED view_vars

set_final_size(new_size) ==
    /\ pc = "idle"
    /\ final_size' = get_valid_size(new_size)
    /\ LET r == pushed_sizes(initial_size, final_size', point_error)
       IN  /\ m_size' = r.m
           /\ c_size' = r.c
           /\ sizes' = r.sizes
    /\ last_op' = [op |-> "set_final_size", arg |-> new_size,
                   before |-> None]
    /\ UNCHANGED <<initial_size, point_error, point_names>>
    /\ UNCHANGED mapper_vars
    /\ UNCHANGED view_vars

\* a slip in the uniform size: the argument is pushed without validation
single_sizes_unvalidated(new_size, names) == [p \in names |-> RInt(int(new_size))]

\* [new_size for i in range(0, no_points)]
single_sizes(new_size, names) == [p \in names |-> get_valid_size(new_size)]

set_single_size(new_size) ==
    /\ pc = "idle"
    /\ sizes' = Some(single_sizes(new_size, point_names))
    /\ last_op' = [op |-> "set_single_size", arg |-> new_size,
                   before |-> Some(before_op)]
    /\ UNCHANGED <<initial_size, final_size, m_size, c_size, point_error,
                   point_names>>
    /\ UNCHANGED mapper_vars
    /\ UNCHANGED view_vars

\* the normalized error of a dataset: min-max scaled, so the smallest is 0
\* and the largest 1, or all are 0 when all errors are equal
NormalizedErrors(P) ==
    {e \in [P -> {Rat(k, ErrDen) : k \in 0..ErrDen}] :
        \/ \A p \in P : e[p] = RInt(0)
        \/ /\ \E p \in P : e[p] = RInt(0)
           /\ \E p \in P : e[p] = RInt(1)}

\* ErrorController.calculate_error: a new normalized error is stored
calculate_error(e) ==
    /\ pc = "idle"
    /\ point_error' = e
    /\ last_op' = [op |-> "calculate_error", arg |-> RInt(0),
                   before |-> None]
    /\ UNCHANGED <<initial_size, final_size, m_size, c_size, sizes, point_names>>
    /\ UNCHANGED mapper_vars
    /\ UNCHANGED view_vars

\* the sizes a caller passes: halves around zero, and the two defaults
SizeArgs ==
    {Rat(k, 2) : k \in (-MaxSizeArg)..MaxSizeArg}
        \cup {RInt(DEFAULT_INITIAL_SIZE), RInt(DEFAULT_FINAL_SIZE)}

\* the constructor's documented arguments: int >= 0
CtorSizes == {s \in SizeArgs : s[2] = 1 /\ s[1] >= 0}

----------------------------------------------------------------------------
(* Star coordinates view: the event handlers *)

\* the dimension labels of the loaded dataset: one axis each
Axes == {"a1", "a2"}

\* an identifier that is no axis of the view
UnknownAxis == "b1"

\* the points of the view's dataset
ViewDataset == {"p1", "p2"}

\* the normalized values of the points: in every dimension p1 has the
\* largest value and p2 the smallest
dimension_values(names) ==
    [p \in names |->
        [a \in Axes |-> IF p = "p1" THEN RInt(1) ELSE RInt(0)]]

RECURSIVE RSum(_, _)
\* the sum of f[a] over the a in S
RSum(S, f) ==
    IF S = {} THEN RInt(0)
    ELSE LET a == CHOOSE b \in S : TRUE
         IN  RAdd(f[a], RSum(S \ {a}, f))

\* the star coordinates mapping: position[p] is the sum of value[p][a] *
\* vector[a] over the axes that are not ignored
star_coordinates_mapping(values, vs, ignored) ==
    LET active == (DOMAIN vs) \ ignored
    IN  [x |-> [p \in DOMAIN values |->
                   RSum(active, [a \in active |-> RMul(values[p][a], vs[a][1])])],
         y |-> [p \in DOMAIN values |->
                   RSum(active, [a \in active |-> RMul(values[p][a], vs[a][2])])]]

\* VectorController.update_single_vector: the vector of one axis is replaced
update_single_vector(vs, axis_id, x, y) ==
    [a \in DOMAIN vs |-> IF a = axis_id THEN <<x, y>> ELSE vs[a]]

\* remap: the (x1, y1) of every axis source of that name is replaced
update_axis_sources(srcs, axis_id, x, y) ==
    [a \in DOMAIN srcs |-> IF a = axis_id THEN <<x, y>> ELSE srcs[a]]

\* InputDataController.update_label_status: the label leaves or enters the
\* set of ignored labels
update_label_status(ignored, label, active) ==
    IF active THEN ignored \ {label} ELSE ignored \cup {label}

\* AxisFigureElement.visible: sets the flag and tells whether it changed
axis_element_visible(flag, is_visible) ==
    [changed |-> flag # is_visible, visible |-> is_visible]

\* the size controller's state as a record
size_state ==
    [point_error |-> point_error, m |-> m_size, c |-> c_size, sizes |-> sizes,
     last_op |-> last_op, calls |-> <<>>]

\* a slip in the handler: the sizes are not pushed after the new error
execute_error_recalc_without_sizes(e) ==
    [size_state EXCEPT !.point_error = e, !.calls = <<"calculate_error">>]

\* _execute_error_recalc: calculate_error(), then update_sizes() with the
\* new normalized error
execute_error_recalc(e) ==
    LET r == pushed_sizes(initial_size, final_size, e)
    IN  [point_error |-> e, m |-> r.m, c |-> r.c, sizes |-> r.sizes,
         last_op |-> [op |-> "update_sizes", arg |-> RInt(0), before |-> None],
         calls |-> <<"calculate_error", "update_sizes">>]

\* the execute_mapping() of the view's mapper controller: the mapping of the
\* normalized values by the vectors, the labels ignored left out
view_mapping(vs, ignored, time_cost) ==
    execute_mapping_result(
        star_coordinates_mapping(dimension_values(point_names), vs, ignored),
        time_cost)

\* _execute_mapping: execute_mapping() with the outcome r, then
\* _execute_error_recalc(); an exception of execute_mapping skips the
\* recalculation
view_execute_mapping(r, e) ==
    LET s == IF r.fault = "none" THEN execute_error_recalc(e) ELSE size_state
    IN  [fault |-> r.fault, last |-> r.last, source |-> r.source, size |-> s,
         calls |-> <<"execute_mapping">> \o s.calls]

\* the view runs no remapping
no_mapping ==
    [fault |-> "none", last |-> last_mapped_points_df, source |-> source,
     size |-> size_state, calls |-> <<>>]

\* what a handler leaves in the controllers after (or without) a remapping
handler_outcome(r) ==
    /\ last_mapped_points_df' = r.last
    /\ source' = r.source
    /\ call' = None
    /\ point_error' = r.size.point_error
    /\ m_size' = r.size.m
    /\ c_size' = r.size.c
    /\ sizes' = r.size.sizes
    /\ last_op' = r.size.last_op
    /\ UNCHANGED <<point_names, animator, source_points, pc, mapped_points_df,
                   initial_size, final_size>>

\* the time costs a probe frame of the view measures: none, or more than
\* max_time
ViewTimeCosts == {c \in TimeCosts : c = RInt(0) \/ c = RInt(MaxCostNum)}

\* the handler record: name and arguments, the exception it ended with, the
\* controller calls it made, whether a uniform size was in force when it
\* started, and what it found of the state that it must not change
handler_record(name, axis_id, arg, fault, calls, before) ==
    [name |-> name, axis_id |-> axis_id, arg |-> arg, fault |-> fault,
     calls |-> calls, uniform_before |-> last_op.op = "set_single_size",
     before |-> before]

\* the vectors and the axis sources of the axes other than axis_id
others(axis_id) ==
    <<[a \in (DOMAIN vectors) \ {axis_id} |-> vectors[a]],
      [a \in (DOMAIN axis_sources) \ {axis_id} |-> axis_sources[a]]>>

\* remap, the callback of the drag tool: glyph.name is the dragged axis,
\* (glyph.x, glyph.y) its new end point
remap(axis_id, x, y) ==
    /\ pc = "idle"
    /\ vectors' = update_single_vector(vectors, axis_id, x, y)
    /\ axis_sources' = update_axis_sources(axis_sources, axis_id, x, y)
    /\ \E time_cost \in ViewTimeCosts :
          \E mapping \in {view_mapping(vectors', ignored_labels, time_cost)},
             e \in NormalizedErrors(point_names) :
          \E r \in {view_execute_mapping(mapping, e)} :
              /\ handler_outcome(r)
              /\ handler' = handler_record("remap", axis_id, <<x, y>>, r.fault,
                                <<"update_single_vector">> \o r.calls,
                                others(axis_id))
    /\ UNCHANGED <<ignored_labels, axis_visible>>

\* update_axis_visibility((axis_id, is_visible)): the ValueError of the
\* validity check is built but not raised, so an unknown axis_id ends at
\* self._axis_elements[axis_id], after update_label_status
update_axis_visibility(axis_id, is_visible) ==
    /\ pc = "idle"
    /\ ignored_labels' = update_label_status(ignored_labels, axis_id, is_visible)
    /\ IF axis_id \notin DOMAIN axis_visible
       THEN /\ handler_outcome(no_mapping)
            /\ handler' = handler_record("update_axis_visibility", axis_id,
                              is_visible, "KeyError", <<"update_label_status">>,
                              <<ignored_labels, axis_visible,
                                last_mapped_points_df>>)
            /\ UNCHANGED axis_visible
       ELSE LET el == axis_element_visible(axis_visible[axis_id], is_visible)
                returns(r) ==
                    /\ handler_outcome(r)
                    /\ handler' = handler_record("update_axis_visibility",
                                      axis_id, is_visible, r.fault,
                                      <<"update_label_status">> \o r.calls, <<>>)
            IN  /\ axis_visible' = [axis_visible EXCEPT ![axis_id] = el.visible]
                /\ IF el.changed
                   THEN \E time_cost \in ViewTimeCosts :
                        \E mapping \in {view_mapping(vectors, ignored_labels',
                                                     time_cost)},
                           e \in NormalizedErrors(point_names) :
                        \E r \in {view_execute_mapping(mapping, e)} :
                            returns(r)
                   ELSE returns(no_mapping)
    /\ UNCHANGED <<vectors, axis_sources>>

\* update_error_algorithm: the new algorithm is selected and the error and
\* the sizes are recalculated
update_error_algorithm ==
    /\ pc = "idle"
    /\ \E e \in NormalizedErrors(point_names) :
          LET s == execute_error_recalc(e)
          IN  /\ handler_outcome([no_mapping EXCEPT !.size = s])
              /\ handler' = handler_record("update_error_algorithm", "", <<>>,
                                "none", s.calls, <<>>)
    /\ UNCHANGED <<vectors, axis_sources, ignored_labels, axis_visible>>

\* the sizes the view's size inputs pass on: one below MIN_SIZE and the
\* default of the final size
ViewSizeArgs == {s \in CtorSizes : s[1] \in {0, DEFAULT_FINAL_SIZE}}

----------------------------------------------------------------------------
(* Specifications *)

MapperDataset == {"p1"}

SizeDataset == {"p1", "p2", "p3"}

\* MapperController.__init__
InitMapperController(animators) ==
    /\ last_mapped_points_df = None
    /\ animator \in animators
    /\ source_points \in BOOLEAN
    /\ source = None
    /\ pc = "idle"
    /\ mapped_points_df = None
    /\ call = None

\* PointSizeController.__init__: the arguments are stored as given
InitPointSizeController(initial_sizes, final_sizes, errors) ==
    /\ initial_size \in initial_sizes
    /\ final_size \in final_sizes
    /\ m_size = size_line_equation(initial_size, final_size).m
    /\ c_size = size_line_equation(initial_size, final_size).c
    /\ sizes = None
    /\ point_error \in errors
    /\ last_op = [op |-> "init", arg |-> RInt(0), before |-> None]

\* StarCoordinatesView._init up to the axis elements: the axis sources
\* take the vectors, every label is active and every axis visible
InitAxes ==
    /\ vectors = [a \in Axes |-> IF a = "a1" THEN <<RInt(1), RInt(0)>>
                                             ELSE <<RInt(0), RInt(1)>>]
    /\ axis_sources = vectors
    /\ ignored_labels = {}
    /\ axis_visible = [a \in Axes |-> TRUE]
    /\ handler = [name |-> "_init", axis_id |-> "", arg |-> <<>>,
                  fault |-> "none",
                  calls |-> <<"execute_mapping", "calculate_error",
                              "update_sizes">>,
                  uniform_before |-> FALSE, before |-> <<>>]

\* the mapper controller and its animator, over a one-point dataset
InitMapper ==
    /\ point_names = MapperDataset
    /\ InitMapperController(BOOLEAN)
    /\ InitPointSizeController({RInt(DEFAULT_INITIAL_SIZE)},
                               {RInt(DEFAULT_FINAL_SIZE)},
                               {[p \in point_names |-> RInt(0)]})
    /\ InitAxes

NextMapper ==
    \/ execute_active_algorithm
    \/ execute_active_algorithm_raises
    \/ execute_mapping_step
    \/ \E a \in BOOLEAN : set_animator(a)
    \/ \E s \in BOOLEAN : set_source_points(s)

SpecMapper == InitMapper /\ [][NextMapper]_vars

\* the point size controller, over a three-point dataset
InitSize ==
    /\ point_names = SizeDataset
    /\ InitMapperController({TRUE})
    /\ source_points = FALSE
    /\ InitPointSizeController(CtorSizes, CtorSizes,
                               NormalizedErrors(point_names))
    /\ InitAxes

NextSize ==
    \/ update_sizes
    \/ \E v \in SizeArgs : set_initial_size(v)
    \/ \E v \in SizeArgs : set_final_size(v)
    \/ \E v \in SizeArgs : set_single_size(v)
    \/ \E e \in NormalizedErrors(point_names) : calculate_error(e)

SpecSize == InitSize /\ [][NextSize]_vars

\* the view after _init, when the first execute_mapping has completed: the
\* mapper controller has the animator and a stored result that the render
\* buffer shows, the error is calculated and the sizes are pushed
InitView(names) ==
    /\ point_names = names
    /\ InitAxes
    /\ animator = TRUE
    /\ source_points = FALSE
    /\ pc = "idle"
    /\ mapped_points_df = None
    /\ call = None
    /\ last_mapped_points_df =
           Some(star_coordinates_mapping(dimension_values(point_names), vectors,
                                         ignored_labels))
    /\ source = last_mapped_points_df
    /\ initial_size = RInt(DEFAULT_INITIAL_SIZE)
    /\ final_size = RInt(DEFAULT_FINAL_SIZE)
    /\ point_error \in NormalizedErrors(point_names)
    /\ LET r == pushed_sizes(initial_size, final_size, point_error)
       IN  /\ m_size = r.m
           /\ c_size = r.c
           /\ sizes = r.sizes
    /\ last_op = [op |-> "update_sizes", arg |-> RInt(0), before |-> None]

\* the view's handlers of drags and visibility changes, over a one-point
\* dataset
NextView ==
    \/ \E a \in Axes, x, y \in Coords : remap(a, x, y)
    \/ \E a \in Axes \cup {UnknownAxis}, v \in BOOLEAN :
          update_axis_visibility(a, v)

SpecView == InitView(MapperDataset) /\ [][NextView]_vars

\* the handlers that recalculate the error or change the sizes, over a
\* two-point dataset
NextViewSizes ==
    \/ \E v \in BOOLEAN : update_axis_visibility("a1", v)
    \/ update_error_algorithm
    \/ \E v \in ViewSizeArgs : set_initial_size(v)
    \/ \E v \in ViewSizeArgs : set_final_size(v)
    \/ \E v \in ViewSizeArgs : set_single_size(v)

SpecViewSizes == InitView(ViewDataset) /\ [][NextViewSizes]_vars

----------------------------------------------------------------------------
(* Properties of the mapping animator (SpecMapper) *)

\* an execute_mapping call has ended and its animator was given a layout
Animated ==
    /\ pc = "idle"
    /\ call # None
    /\ call[1].fault # "error in the mapping algorithm"
    /\ call[1].animator
    /\ call[1].original # None

\* ... and get_animation_sequence returned
AnimationReturned == Animated /\ call[1].fault = "none"

Layout(t) == [x |-> t.x, y |-> t.y]

\* the frame the loop wrote at step k (after the probe frame)
StepFrame(k) == call[1].writes[k + 2]

\* C1: whenever get_animation_sequence returns, whatever the step count, the
\* last layout it wrote through update_coordinates is exactly the target
\* layout (no write follows it inside the call).
C1_LastWriteIsTarget ==
    (pc = "idle" /\ call # None /\ call[1].animator /\ call[1].fault = "none")
        => /\ call[1].writes # <<>>
           /\ Last(call[1].writes) = Layout(call[1].target)

\* a returned animation of zero steps between two different layouts
C1_Witness ==
    /\ AnimationReturned
    /\ call[1].total_steps = 0
    /\ call[1].original[1] # call[1].target
    /\ Last(call[1].writes) = Layout(call[1].target)

\* C2 (as stated): with T > 0 steps, the x written at step k is
\* x_original + (k/T) * (x_target - x_original) for every k in 0..T-1.
C2_LinearFromOriginal ==
    AnimationReturned =>
        LET T == call[1].total_steps
            x0 == call[1].original[1].x
            xf == call[1].target.x
        IN  \A k \in 0..(T - 1) : \A p \in DOMAIN x0 :
                StepFrame(k).x[p]
                    = RAdd(x0[p], RMul(Rat(k, T), RSub(xf[p], x0[p])))

\* C2 (amended): the x written at step k is x_prev + (k/T) * (x_target -
\* x_prev), x_prev being the x written by the frame before (the probe frame
\* for k = 0); it is the linear interpolation from the original for k <= 1.
C2_CompoundsFromPreviousFrame ==
    AnimationReturned =>
        LET T == call[1].total_steps
            x0 == call[1].original[1].x
            xf == call[1].target.x
        IN  \A k \in 0..(T - 1) : \A p \in DOMAIN x0 :
                LET prev == call[1].writes[k + 1].x[p]
                IN  /\ StepFrame(k).x[p]
                          = RAdd(prev, RMul(Rat(k, T), RSub(xf[p], prev)))
                    /\ k <= 1 =>
                          StepFrame(k).x[p]
                              = RAdd(x0[p], RMul(Rat(k, T), RSub(xf[p], x0[p])))

\* an animation of at least three steps that moves x
C2_Witness ==
    /\ AnimationReturned
    /\ call[1].total_steps >= 3
    /\ \E p \in point_names :
          /\ call[1].original[1].x[p] # call[1].target.x[p]
          /\ StepFrame(2).x[p] # call[1].original[1].x[p]
          /\ StepFrame(2).x[p] # call[1].target.x[p]

\* C3: a point with the same x in the original and the target but another y
\* keeps its x in the step frames while its y progresses from the original
\* toward the target (it does not stay fixed over the steps).
C3_YInterpolatesWhenXEqual ==
    (AnimationReturned /\ call[1].total_steps >= 2) =>
        LET T == call[1].total_steps
            o == call[1].original[1]
            t == call[1].target
        IN  \A p \in DOMAIN o.x :
                (o.x[p] = t.x[p] /\ o.y[p] # t.y[p]) =>
                    /\ \A k \in 0..(T - 1) : StepFrame(k).x[p] = o.x[p]
                    /\ StepFrame(T - 1).y[p] # StepFrame(0).y[p]

\* some point has the same x in the original and in the target
SomeXEqual ==
    \E p \in point_names : call[1].original[1].x[p] = call[1].target.x[p]

\* C4: with a point of equal x in the original and the target,
\* get_animation_sequence does not fail with a division error and runs to
\* its final write of the target.
C4_NoDivisionErrorWhenXEqual ==
    (Animated /\ SomeXEqual) =>
        /\ call[1].fault # "ZeroDivisionError in calculate_line_equation"
        /\ call[1].fault # "ZeroDivisionError in calculate_time_cost"
        /\ call[1].writes # <<>>
        /\ Last(call[1].writes) = Layout(call[1].target)

StepFrameCount == Len(call[1].writes) - 2

\* C6: the number of frames between the probe and the final snap is
\* floor(max_time / frame_cost): the n >= 0 with
\* n * cost <= max_time < (n + 1) * cost; it is 0 when the cost exceeds
\* max_time, and then only the probe and the target are written.
C6_StepCountIsFloor ==
    AnimationReturned =>
        LET cost == call[1].time_cost
            n == StepFrameCount
        IN  /\ n >= 0
            /\ RLeq(RMul(RInt(n), cost), RInt(max_time))
            /\ RLess(RInt(max_time), RMul(RInt(n + 1), cost))
            /\ RLess(RInt(max_time), cost) =>
                  call[1].writes = <<Layout(call[1].original[1]),
                                     Layout(call[1].target)>>

\* a frame cost that does not divide max_time: 3/2 gives one step frame
C6_Witness ==
    /\ AnimationReturned
    /\ call[1].time_cost = Rat(3, 2)
    /\ StepFrameCount = 1
    /\ call[1].original[1] # call[1].target

----------------------------------------------------------------------------
(* Properties of the point size controller (SpecSize) *)

\* the operations that end in update_sizes
EndsInUpdateSizes ==
    last_op.op \in {"update_sizes", "set_initial_size", "set_final_size"}

\* C7: after update_sizes the pushed size of every point p is
\* initial_size + e[p] * (final_size - initial_size), e the current
\* normalized error.
C7_SizesOnTheLine ==
    EndsInUpdateSizes =>
        sizes = Some([p \in point_names |->
                        RAdd(initial_size,
                             RMul(point_error[p],
                                  RSub(final_size, initial_size)))])

\* initial_size = 4, final_size = 12, error 0.5: the size is 8
C7_Witness ==
    /\ last_op.op = "update_sizes"
    /\ initial_size = RInt(4)
    /\ final_size = RInt(12)
    /\ \E p \in point_names :
          /\ point_error[p] = Rat(1, 2)
          /\ sizes[1][p] = RInt(8)

\* C8: set_initial_size(v) and set_final_size(v) store 1 for every v below
\* 1 and v itself for every integer v >= 1.
C8_BoundsClamp ==
    LET v == last_op.arg
        stored == IF last_op.op = "set_initial_size"
                  THEN initial_size ELSE final_size
    IN  last_op.op \in {"set_initial_size", "set_final_size"} =>
            /\ RLess(v, RInt(1)) => stored = RInt(1)
            /\ (v[2] = 1 /\ v[1] >= 1) => stored = v

\* a negative size was set as the initial size
C8_Witness ==
    /\ last_op.op = "set_initial_size"
    /\ RLess(last_op.arg, RInt(0))
    /\ initial_size = RInt(1)

\* C9: in every reachable state both stored bounds are >= 1 and (m, c) is
\* the line through (0, initial_size) and (1, final_size).
C9_BoundsAtLeastMinSize ==
    /\ RLeq(RInt(1), initial_size)
    /\ RLeq(RInt(1), final_size)
    /\ m_size = RSub(final_size, initial_size)
    /\ c_size = initial_size

\* int(s) stated by its property: the integer part of s, rounded toward zero
TruncatedInt(s) ==
    CHOOSE t \in (-Abs(s[1]))..Abs(s[1]) :
        IF s[1] >= 0
        THEN RLeq(RInt(t), s) /\ RLess(s, RInt(t + 1))
        ELSE RLess(RInt(t - 1), s) /\ RLeq(s, RInt(t))

\* C10: set_single_size(s) pushes max(1, int(s)) for every point and leaves
\* initial_size, final_size, m and c as they were.
C10_SingleSize ==
    last_op.op = "set_single_size" =>
        LET t == TruncatedInt(last_op.arg)
            size == RInt(IF t >= 1 THEN t ELSE 1)
        IN  /\ sizes = Some([p \in point_names |-> size])
            /\ Some(<<initial_size, final_size, m_size, c_size>>) = last_op.before

\* a uniform size of 12 was pushed while the bounds are smaller
C10_Witness ==
    /\ last_op.op = "set_single_size"
    /\ last_op.arg = RInt(12)
    /\ sizes = Some([p \in point_names |-> RInt(12)])
    /\ final_size # RInt(12)
    /\ initial_size # RInt(12)

\* C12: for the sizes update_sizes pushed and any two points with normalized
\* errors e1 < e2, size(e1) < size(e2) when final_size > initial_size,
\* size(e1) > size(e2) when final_size < initial_size, and the sizes are
\* equal when the bounds are equal.
C12_SizesMonotone ==
    EndsInUpdateSizes =>
        \A p, q \in point_names :
            RLess(point_error[p], point_error[q]) =>
                /\ RLess(initial_size, final_size)
                      => RLess(sizes[1][p], sizes[1][q])
                /\ RLess(final_size, initial_size)
                      => RLess(sizes[1][q], sizes[1][p])
                /\ initial_size = final_size
                      => sizes[1][p] = sizes[1][q]

\* bounds in descending order and three different errors: the sizes descend
C12_Witness ==
    /\ EndsInUpdateSizes
    /\ RLess(final_size, initial_size)
    /\ \E p, q, r \in point_names :
          /\ RLess(point_error[p], point_error[q])
          /\ RLess(point_error[q], point_error[r])
          /\ RLess(sizes[1][r], sizes[1][q])
          /\ RLess(sizes[1][q], sizes[1][p])

----------------------------------------------------------------------------
(* Properties of execute_mapping (SpecMapper) *)

\* an execute_mapping call has ended
CallEnded == pc = "idle" /\ call # None

\* ... by returning
CallReturned == CallEnded /\ call[1].fault = "none"

\* C15: execute_mapping is all-or-nothing: when it fails, in the mapping
\* algorithm or inside the animation, the stored mapping result and the
\* position columns of the render buffer are what they were before the call.
C15_AllOrNothing ==
    (CallEnded /\ call[1].fault # "none") =>
        /\ last_mapped_points_df = call[1].original
        /\ source = call[1].before

\* C16: the first execute_mapping call (no result stored yet) whose mapping
\* algorithm returns completes and stores its result, also with an animator
\* attached: the animator is not given an absent original layout.
C16_FirstCallCompletes ==
    (/\ CallEnded
     /\ call[1].original = None
     /\ call[1].fault # "error in the mapping algorithm") =>
        /\ call[1].fault = "none"
        /\ last_mapped_points_df = Some(call[1].target)

\* C17 (as stated): after any execute_mapping call that returned, the x and
\* y of the render buffer are those of the stored mapping result, with an
\* animator only, with source_points only, with both and with neither.
C17_BufferIsResult ==
    CallReturned =>
        /\ last_mapped_points_df = Some(call[1].target)
        /\ source = Some(Layout(call[1].target))

\* C17 (amended): ... with an animator, with source_points or with both; with
\* neither the call stores the result and leaves the render buffer as it was.
C17_BufferIsResultWhenAttached ==
    CallReturned =>
        /\ last_mapped_points_df = Some(call[1].target)
        /\ source = IF call[1].animator \/ call[1].source_points
                    THEN Some(Layout(call[1].target))
                    ELSE call[1].before

\* a returned call with an animator only that moved the buffer to the target
C17_Witness ==
    /\ CallReturned
    /\ call[1].animator
    /\ ~call[1].source_points
    /\ call[1].before # Some(Layout(call[1].target))
    /\ source = Some(Layout(call[1].target))

RAbs(a) == <<Abs(a[1]), a[2]>>

\* b lies between a and c, ends included
RBetween(a, b, c) ==
    \/ RLeq(a, b) /\ RLeq(b, c)
    \/ RLeq(c, b) /\ RLeq(b, a)

\* C18: in every frame before the final one the x of each point lies between
\* its original x and its target x (ends included), and from one frame to
\* the next it never moves away from the target.
C18_NoOvershoot ==
    AnimationReturned =>
        LET T == call[1].total_steps
            x0 == call[1].original[1].x
            xf == call[1].target.x
        IN  \A p \in DOMAIN x0 :
                /\ call[1].writes[1].x[p] = x0[p]
                /\ \A k \in 0..(T - 1) :
                      /\ RBetween(x0[p], StepFrame(k).x[p], xf[p])
                      /\ RLeq(RAbs(RSub(xf[p], StepFrame(k).x[p])),
                              RAbs(RSub(xf[p], call[1].writes[k + 1].x[p])))

\* an animation of at least four steps whose last step frame is strictly
\* between the frame before it and the target
C18_Witness ==
    /\ AnimationReturned
    /\ call[1].total_steps >= 4
    /\ \E p \in point_names :
          LET T == call[1].total_steps
              xf == call[1].target.x[p]
          IN  /\ StepFrame(T - 1).x[p] # xf
              /\ StepFrame(T - 1).x[p] # StepFrame(T - 2).x[p]
              /\ RBetween(StepFrame(T - 2).x[p], StepFrame(T - 1).x[p], xf)

\* C19: get_animation_sequence does not fail when the probe frame measures a
\* zero cost: it reaches the final write of the target layout.
C19_ZeroCostReachesFinalWrite ==
    (Animated /\ call[1].time_cost = RInt(0)) =>
        /\ call[1].fault = "none"
        /\ call[1].writes # <<>>
        /\ Last(call[1].writes) = Layout(call[1].target)

----------------------------------------------------------------------------
(* Properties of the view's handlers (SpecView, SpecViewSizes) *)

\* C11: every error recalculation of a handler is followed, before the
\* handler returns, by a push of the sizes, and after every change of a size
\* bound and every handler the pushed sizes are those of the newest
\* normalized error and the current bounds, also when a uniform size was in
\* force before; only set_single_size itself leaves other sizes.
C11_SizesFollowError ==
    /\ \A i \in 1..Len(handler.calls) :
          handler.calls[i] = "calculate_error" =>
              /\ i < Len(handler.calls)
              /\ handler.calls[i + 1] = "update_sizes"
    /\ last_op.op # "set_single_size" =>
          sizes = Some([p \in point_names |->
                          RAdd(initial_size,
                               RMul(point_error[p],
                                    RSub(final_size, initial_size)))])

\* a visibility change that found a uniform size and left the sizes of its
\* new error: the point of error 1 has the final size, the other the initial
C11_Witness ==
    /\ handler.name = "update_axis_visibility"
    /\ handler.uniform_before
    /\ handler.calls = <<"update_label_status", "execute_mapping",
                         "calculate_error", "update_sizes">>
    /\ last_op.op = "update_sizes"
    /\ initial_size # final_size
    /\ \E p, q \in point_names :
          /\ point_error[p] = RInt(1)
          /\ point_error[q] = RInt(0)
          /\ sizes[1][p] = final_size
          /\ sizes[1][q] = initial_size

\* C13: update_axis_visibility with an axis_id that is no axis of the view is
\* rejected by the validity check with an invalid-reference error before
\* anything is modified: the label status of the input data controller, the
\* visibility of the axes and the mapping result stay as they were.
C13_UnknownAxisRejected ==
    (handler.name = "update_axis_visibility" /\ handler.axis_id \notin Axes) =>
        /\ handler.fault = "ValueError"
        /\ handler.calls = <<>>
        /\ <<ignored_labels, axis_visible, last_mapped_points_df>>
              = handler.before

\* C14: a drag (axis_id, new_x, new_y) handled by remap sets the vector and
\* the axis source end point of that axis to (new_x, new_y), leaves every
\* other axis as it was, and runs exactly one remapping, followed by the
\* recalculation of the error and of the sizes.
C14_DragMovesOneAxisAndRemaps ==
    handler.name = "remap" =>
        /\ vectors[handler.axis_id] = handler.arg
        /\ axis_sources[handler.axis_id] = handler.arg
        /\ others(handler.axis_id) = handler.before
        /\ handler.calls = <<"update_single_vector", "execute_mapping",
                             "calculate_error", "update_sizes">>

====
